---- MODULE Spec2Model ----
(***************************************************************************)
(* Model of the NFL data pipeline: the Extractor (load_api.py) and the     *)
(* Loader (load_csv_to_oracle.py).                                         *)
(*                                                                         *)
(* Python's None (and a CSV cell that pandas reads as missing) is NULL.    *)
(* A Python list is a sequence; r[0] of the source is r[1] here.           *)
(***************************************************************************)
EXTENDS Integers, Sequences, FiniteSets, TLC

\* ------------------------------------------------------------------------
\* Bounds of the model
\* ------------------------------------------------------------------------
MaxId == 1          \* keys in the CSV files range over 1..MaxId
MaxRows == 1        \* rows in TEAM.csv, PLAYER.csv, COACH.csv and GAME.csv
MaxStatRows == 2    \* rows in GAME_STATS.csv
MaxTeams == 2       \* teams in the teams list; team ids range over 1..MaxTeams
MaxRoster == 2      \* athletes listed by one roster response
MaxWeeks == 3       \* largest --max-weeks
MaxEvents == 1      \* events listed by one week

\* ------------------------------------------------------------------------
\* Values
\* ------------------------------------------------------------------------
NULL == -1          \* None

RECURSIVE SeqsUpTo(_, _)
\* All sequences over S of length at most n.
SeqsUpTo(S, n) ==
    IF n = 0 THEN {<<>>}
    ELSE LET shorter == SeqsUpTo(S, n - 1)
         IN  shorter \cup {Append(s, x) : s \in {t \in shorter : Len(t) = n - 1}, x \in S}

Range(s) == {s[i] : i \in 1..Len(s)}

Reverse(s) == [i \in 1..Len(s) |-> s[Len(s) + 1 - i]]

\* ========================================================================
\* Loader (load_csv_to_oracle.py)
\* ========================================================================
\* State of the Loader
VARIABLES
    lpc,          \* position of Loader main: start, truncate, load, done, failed, exit
    creds,        \* user, password and dsn all resolved
    truncate,     \* args.truncate
    connOpen,     \* conn opened by oracledb.connect and not closed
    cursorOpen,   \* cursor opened by conn.cursor and not closed
    ti,           \* index in the table loop (1-based)
    dbLog,        \* statements and commits issued on the connection, in order
    pending,      \* per table: rows inserted and not yet committed
    durable,      \* per table: rows of this run that a commit made durable
    player_ids,   \* main's player_ids
    game_ids,     \* main's game_ids
    statsRead,    \* len(rows) of GAME_STATS.csv as load_csv returned it
    passed,       \* per table: rows handed to insert_rows
    stepLog,      \* tables for which insert_rows was called, in order
    skipped       \* count printed by the "skipped ... rows" message (0: not printed)

lvars == <<lpc, creds, truncate, connOpen, cursorOpen, ti, dbLog, pending, durable,
           player_ids, game_ids, statsRead, passed, stepLog, skipped>>

\* State of the Extractor (load_api.py)
VARIABLES
    epc,              \* position of main: teams, players, coaches, games, stats, finish, done, aborted
    remote,           \* the remote service: "any" answers within the bounds, "season" with a fixed season
    max_weeks,        \* --max-weeks
    skip_game_stats,  \* --skip-game-stats
    teams,            \* TEAM frame: the TeamID column
    tidx,             \* index in the team list of the roster / coach loop
    roster_rows,      \* load_all_players' rows
    rosterLog,        \* per roster fetched, the athlete ids it listed (parsed), in fetch order
    players,          \* PLAYER frame: PlayerID, TeamID
    coaches,          \* COACH frame: CoachID, TeamID
    week,             \* load_games' week
    weekLog,          \* per week queried, in order: the week, and the items listed (-1: fetch failed)
    games,            \* GAME frame: GameID, and the week of the scan that produced the row
    stats_meta,       \* load_games' stats_meta
    mi,               \* index in stats_meta of load_game_stats' loop
    ci,               \* index of the competitor loop (0: before the status check)
    game_stats,       \* GAME_STATS frame: GameID, PlayerID
    statusSeen,       \* per entry of stats_meta handled: the state load_game_stats learnt
    fetchLog,         \* boxscore and athlete-statistics fetches issued by load_game_stats
    failedCalls       \* kinds of remote call for which fetch_json returned None

evars == <<epc, remote, max_weeks, skip_game_stats, teams, tidx, roster_rows, rosterLog, players,
           coaches, week, weekLog, games, stats_meta, mi, ci, game_stats, statusSeen,
           fetchLog, failedCalls>>

vars == <<lvars, evars>>

TABLE_ORDER_GameStatsFirst == <<"TEAM", "PLAYER", "COACH", "GAME_STATS", "GAME">>

\* Table names of TABLE_ORDER, in order.
TABLE_ORDER == <<"TEAM", "PLAYER", "COACH", "GAME", "GAME_STATS">>

Tables == {"TEAM", "PLAYER", "COACH", "GAME", "GAME_STATS"}

NoRows == [t \in Tables |-> <<>>]

Keys == 1..MaxId

\* Rows load_csv can return for a table.  A row is the tuple of the columns
\* main reads: the first column (the table's key; GameID for GAME_STATS) and,
\* for GAME_STATS, the second column (PlayerID).  A missing cell is NULL.
FileRows(table) ==
    CASE table = "GAME_STATS" ->
           SeqsUpTo({<<g, p>> : g \in Keys \cup {NULL}, p \in Keys \cup {NULL}}, MaxStatRows)
      [] table \in {"PLAYER", "GAME"} ->
           SeqsUpTo({<<k>> : k \in Keys \cup {NULL}}, MaxRows)
      [] OTHER ->
           SeqsUpTo({<<1>>}, MaxRows)

\* load_csv: the rows of the file (ok), or an exception (missing column,
\* unreadable file).
load_csv(table) ==
    {[ok |-> TRUE, rows |-> r] : r \in FileRows(table)} \cup {[ok |-> FALSE, rows |-> <<>>]}

\* {r[0] for r in rows if r and r[0] is not None}
NonNullKeys(rows) == {rows[i][1] : i \in {j \in 1..Len(rows) : rows[j][1] # NULL}}

FilterStats_Or(rows, gids, pids) ==
    SelectSeq(rows, LAMBDA r : r[1] \in gids \/ r[2] \in pids)

\* The orphan filter of main: keeps r when gid in game_ids and pid in player_ids.
FilterStats(rows, gids, pids) ==
    SelectSeq(rows, LAMBDA r : r[1] \in gids /\ r[2] \in pids)

Stmt(op, table) == [op |-> op, table |-> table]

LInit ==
    /\ lpc = "start"
    /\ creds \in BOOLEAN
    /\ truncate \in BOOLEAN
    /\ connOpen = FALSE
    /\ cursorOpen = FALSE
    /\ ti = 1
    /\ dbLog = <<>>
    /\ pending = NoRows
    /\ durable = NoRows
    /\ player_ids = {}
    /\ game_ids = {}
    /\ statsRead = 0
    /\ passed = NoRows
    /\ stepLog = <<>>
    /\ skipped = 0

\* main, lines 74-78: unresolved credentials end the run before connecting.
MissingCredentials ==
    /\ lpc = "start"
    /\ ~creds
    /\ lpc' = "exit"
    /\ UNCHANGED <<creds, truncate, connOpen, cursorOpen, ti, dbLog, pending, durable,
                   player_ids, game_ids, statsRead, passed, stepLog, skipped>>
    /\ UNCHANGED evars

\* main, lines 80-81 and 87-88: connect, open the cursor.
Connect ==
    /\ lpc = "start"
    /\ creds
    /\ \/ /\ connOpen' = TRUE
          /\ cursorOpen' = TRUE
          /\ lpc' = IF truncate THEN "truncate" ELSE "load"
       \/ /\ lpc' = "failed"          \* oracledb.connect raises
          /\ UNCHANGED <<connOpen, cursorOpen>>
    /\ UNCHANGED <<creds, truncate, ti, dbLog, pending, durable,
                   player_ids, game_ids, statsRead, passed, stepLog, skipped>>
    /\ UNCHANGED evars

\* truncate_tables, one statement of its loop over reversed TABLE_ORDER.
truncate_tables ==
    /\ lpc = "truncate"
    /\ ti <= Len(TABLE_ORDER)
    /\ \/ /\ dbLog' = Append(dbLog, Stmt("TRUNCATE", Reverse(TABLE_ORDER)[ti]))
          /\ ti' = ti + 1
          /\ lpc' = lpc
       \/ /\ lpc' = "failed"          \* cursor.execute raises
          /\ UNCHANGED <<dbLog, ti>>
    /\ UNCHANGED <<creds, truncate, connOpen, cursorOpen, pending, durable,
                   player_ids, game_ids, statsRead, passed, stepLog, skipped>>
    /\ UNCHANGED evars

\* main, line 85: the commit that ends the truncate phase.
TruncateCommit ==
    /\ lpc = "truncate"
    /\ ti > Len(TABLE_ORDER)
    /\ dbLog' = Append(dbLog, Stmt("COMMIT", "-"))
    /\ durable' = [t \in Tables |-> durable[t] \o pending[t]]
    /\ pending' = NoRows
    /\ lpc' = "load"
    /\ ti' = 1
    /\ UNCHANGED <<creds, truncate, connOpen, cursorOpen,
                   player_ids, game_ids, statsRead, passed, stepLog, skipped>>
    /\ UNCHANGED evars

\* LoadRows with a commit after each table's insert.
LoadRows_CommitEach(table, read) ==
    LET rows == IF table = "GAME_STATS" THEN FilterStats(read, game_ids, player_ids)
                ELSE read
    IN  /\ statsRead' = IF table = "GAME_STATS" THEN Len(read) ELSE statsRead
        /\ skipped' = IF table = "GAME_STATS" THEN Len(read) - Len(rows) ELSE skipped
        /\ passed' = [passed EXCEPT ![table] = rows]
        /\ stepLog' = Append(stepLog, table)
        /\ \/ /\ pending' = NoRows
              /\ durable' = [t \in Tables |-> durable[t] \o (IF t = table THEN pending[t] \o rows
                                                               ELSE pending[t])]
              /\ dbLog' = IF rows = <<>> THEN Append(dbLog, Stmt("COMMIT", "-"))
                          ELSE dbLog \o <<Stmt("INSERT", table), Stmt("COMMIT", "-")>>
              /\ player_ids' = IF table = "PLAYER" THEN NonNullKeys(rows) ELSE player_ids
              /\ game_ids' = IF table = "GAME" THEN NonNullKeys(rows) ELSE game_ids
              /\ ti' = ti + 1
              /\ lpc' = lpc
           \/ /\ rows # <<>>          \* cursor.executemany raises
              /\ lpc' = "failed"
              /\ UNCHANGED <<pending, durable, dbLog, player_ids, game_ids, ti>>

\* One iteration of main's loop over TABLE_ORDER (lines 90-112) for a file
\* that load_csv could read: filter, insert_rows, then the id sets.  Nothing
\* is committed here.
LoadRows(table, read) ==
    LET rows == IF table = "GAME_STATS" THEN FilterStats(read, game_ids, player_ids)
                ELSE read
    IN  /\ statsRead' = IF table = "GAME_STATS" THEN Len(read) ELSE statsRead
        /\ skipped' = IF table = "GAME_STATS" THEN Len(read) - Len(rows) ELSE skipped
        /\ passed' = [passed EXCEPT ![table] = rows]
        /\ stepLog' = Append(stepLog, table)
        /\ durable' = durable
        /\ \/ /\ pending' = [pending EXCEPT ![table] = @ \o rows]
              /\ dbLog' = IF rows = <<>> THEN dbLog      \* insert_rows: if not rows: return
                          ELSE Append(dbLog, Stmt("INSERT", table))
              /\ player_ids' = IF table = "PLAYER" THEN NonNullKeys(rows) ELSE player_ids
              /\ game_ids' = IF table = "GAME" THEN NonNullKeys(rows) ELSE game_ids
              /\ ti' = ti + 1
              /\ lpc' = lpc
           \/ /\ rows # <<>>          \* cursor.executemany raises
              /\ lpc' = "failed"
              /\ UNCHANGED <<pending, dbLog, player_ids, game_ids, ti>>

LoadTable ==
    /\ lpc = "load"
    /\ ti <= Len(TABLE_ORDER)
    /\ \E read \in load_csv(TABLE_ORDER[ti]) :
          IF ~read.ok
          THEN /\ lpc' = "failed"     \* load_csv raises
               /\ UNCHANGED <<ti, dbLog, pending, durable, player_ids, game_ids,
                              statsRead, passed, stepLog, skipped>>
          ELSE LoadRows(TABLE_ORDER[ti], read.rows)
    /\ UNCHANGED <<creds, truncate, connOpen, cursorOpen>>
    /\ UNCHANGED evars

\* main, line 114: the final commit.
FinalCommit ==
    /\ lpc = "load"
    /\ ti > Len(TABLE_ORDER)
    /\ \/ /\ dbLog' = Append(dbLog, Stmt("COMMIT", "-"))
          /\ durable' = [t \in Tables |-> durable[t] \o pending[t]]
          /\ pending' = NoRows
          /\ lpc' = "done"
       \/ /\ lpc' = "failed"          \* conn.commit raises
          /\ UNCHANGED <<dbLog, durable, pending>>
    /\ UNCHANGED <<creds, truncate, connOpen, cursorOpen, ti,
                   player_ids, game_ids, statsRead, passed, stepLog, skipped>>
    /\ UNCHANGED evars

LNext ==
    \/ MissingCredentials
    \/ Connect
    \/ truncate_tables
    \/ TruncateCommit
    \/ LoadTable
    \/ FinalCommit


\* ------------------------------------------------------------------------
\* Properties of the Loader
\* ------------------------------------------------------------------------
\* Rows of the table inserted so far in this run (committed or not).
Inserted(t) == durable[t] \o pending[t]

KeysOf(rows) == {rows[i][1] : i \in 1..Len(rows)} \ {NULL}

StmtsOf(op) == {i \in 1..Len(dbLog) : dbLog[i].op = op}

\* C1: every GAME_STATS row handed to insert has a GameID among the non-null
\* GameIDs of the GAME rows inserted earlier in the run and a PlayerID among
\* the non-null PlayerIDs of the PLAYER rows inserted earlier; the count
\* reported as skipped is the file's row count minus the kept row count.
C1_StatsReferToLoadedParents ==
    LET kept == passed["GAME_STATS"]
        gids == KeysOf(Inserted("GAME"))
        pids == KeysOf(Inserted("PLAYER"))
    IN  /\ \A i \in 1..Len(kept) : kept[i][1] \in gids /\ kept[i][2] \in pids
        /\ skipped = statsRead - Len(kept)
        /\ skipped >= 0

\* C1 witness: a run that finished after dropping some GAME_STATS rows and
\* inserting others.
C1_Witness ==
    /\ lpc = "done"
    /\ skipped > 0
    /\ passed["GAME_STATS"] # <<>>

\* C2: a failed run leaves no inserted row durable; rows are durable only
\* once the run is done; no commit lies between two inserts and there are
\* at most two commits (after the truncate phase, after all five tables).
C2_AllOrNothing ==
    /\ lpc = "failed" => \A t \in Tables : durable[t] = <<>>
    /\ (\E t \in Tables : durable[t] # <<>>) => lpc = "done"
    /\ \A i \in StmtsOf("INSERT"), j \in StmtsOf("COMMIT"), k \in StmtsOf("INSERT") :
          ~(i < j /\ j < k)
    /\ Cardinality(StmtsOf("COMMIT")) <= 2

\* C2 witness: a run that failed after rows had been inserted.
C2_Witness ==
    /\ lpc = "failed"
    /\ pending["TEAM"] # <<>>
    /\ pending["GAME"] # <<>>

\* C6 (as claimed): once main has ended, normally or by an exception raised
\* after the connection was opened, the connection and the cursor are
\* released.
C6_ReleasedOnExit ==
    lpc \in {"done", "failed"} => (~connOpen /\ ~cursorOpen)

DepRank(t) ==
    CASE t = "TEAM" -> 1
      [] t = "PLAYER" -> 2
      [] t = "COACH" -> 3
      [] t = "GAME" -> 4
      [] t = "GAME_STATS" -> 5

References(t) ==
    CASE t = "TEAM" -> {}
      [] t = "PLAYER" -> {"TEAM"}
      [] t = "COACH" -> {"TEAM"}
      [] t = "GAME" -> {"TEAM"}
      [] t = "GAME_STATS" -> {"GAME", "PLAYER"}

\* C7: the statements issued are in a fixed order.  With truncate, the five
\* tables are truncated GAME_STATS, GAME, COACH, PLAYER, TEAM and committed
\* before any insert; without it nothing is truncated.  The insert steps run
\* in the order TEAM, PLAYER, COACH, GAME, GAME_STATS; an insert statement
\* is issued only after the insert step of every table it references; a
\* step with zero rows issues no statement.
C7_FixedOrder ==
    LET ins == StmtsOf("INSERT")
        trs == StmtsOf("TRUNCATE")
    IN  /\ \A i \in ins, j \in ins : i < j => DepRank(dbLog[i].table) < DepRank(dbLog[j].table)
        /\ \A i \in trs, j \in trs : i < j => DepRank(dbLog[i].table) > DepRank(dbLog[j].table)
        /\ \A i \in trs, j \in ins : i < j
        /\ ~truncate => trs = {}
        /\ (truncate /\ stepLog # <<>>) =>
              /\ trs = 1..5
              /\ dbLog[6].op = "COMMIT"
        /\ \A k \in 1..Len(stepLog) : DepRank(stepLog[k]) = k
        /\ \A i \in ins :
              /\ \A r \in References(dbLog[i].table) :
                    \E k \in 1..Len(stepLog) : stepLog[k] = r
              /\ passed[dbLog[i].table] # <<>>
        /\ \A t \in Tables : passed[t] = <<>> => \A i \in ins : dbLog[i].table # t

\* C7 witness: a finished run with truncate, where COACH.csv had no rows
\* and GAME_STATS rows were inserted.
C7_Witness ==
    /\ lpc = "done"
    /\ truncate
    /\ "COACH" \in {stepLog[k] : k \in 1..Len(stepLog)}
    /\ passed["COACH"] = <<>>
    /\ \E i \in StmtsOf("INSERT") : dbLog[i].table = "GAME_STATS"


\* ========================================================================
\* Extractor (load_api.py)
\* ========================================================================
\* "if not x" on an Optional[int]: None and 0 are false.
Truthy(x) == x # NULL /\ x # 0

AthleteIds == 1..MaxId

TeamIds == 1..MaxTeams

\* ---- the remote service ----
SeasonTeams == <<1, 2>>

SeasonRoster(tid) == IF tid = 1 THEN <<1, 2>> ELSE <<1>>

\* Events listed by a week of the season: week 1 has events 1 and 2.
SeasonWeek(w) == IF w = 1 THEN <<1, 2>> ELSE <<>>

\* State of an event of the season: event 1 is over, the others in progress.
SeasonState(e) == IF e = 1 THEN "post" ELSE "in"

\* Athlete entries of a competitor's boxscore in the season: athlete ids, one
\* per (category, athlete) pair listed.
SeasonBoxscore(e, team) ==
    CASE e = 1 /\ team = 1 -> <<1, 1>>
      [] e = 1 /\ team = 2 -> <<1>>
      [] e = 2 /\ team = 1 -> <<2>>
      [] OTHER -> <<>>

\* fetch_json of the teams list: None, or the ids of the teams listed (NULL
\* where safe_int fails).
TeamsResponses ==
    {[ok |-> FALSE, ids |-> <<>>]} \cup
    (IF remote = "season" THEN {[ok |-> TRUE, ids |-> SeasonTeams]}
     ELSE {[ok |-> TRUE, ids |-> t] : t \in SeqsUpTo(TeamIds \cup {NULL}, MaxTeams)})

\* fetch_json of a roster: None, or the athlete ids listed, position groups
\* flattened (NULL where safe_int fails).
RosterResponses(tid) ==
    {[ok |-> FALSE, athletes |-> <<>>]} \cup
    (IF remote = "season" THEN {[ok |-> TRUE, athletes |-> SeasonRoster(tid)]}
     ELSE {[ok |-> TRUE, athletes |-> a] : a \in SeqsUpTo(AthleteIds \cup {NULL}, MaxRoster)})

\* What load_coaches gets for one team: the listing (None, or items), and
\* for each item whether it has a $ref, whether the detail fetch worked and
\* the id the detail carries.
CoachItems(tid) ==
    {[ref |-> FALSE, ok |-> FALSE, id |-> NULL],
     [ref |-> TRUE, ok |-> FALSE, id |-> NULL],
     [ref |-> TRUE, ok |-> TRUE, id |-> tid]}

CoachResponses(tid) ==
    {[ok |-> FALSE, items |-> <<>>]} \cup
    {[ok |-> TRUE, items |-> i] : i \in SeqsUpTo(CoachItems(tid), 2)}

\* An event as fetched: ok FALSE when fetch_json returned None; ha whether
\* both a home and an away competitor are listed; sc whether both fetches
\* of fetch_score worked (the score columns are not part of the model).
Event(ok, id, ha, comp, sc) ==
    [ok |-> ok, id |-> id, ha |-> ha, comp_id |-> comp, home |-> 1, away |-> 2,
     status_ref |-> TRUE, sc |-> sc]

EventResponses(ids) ==
    {Event(FALSE, NULL, FALSE, NULL, FALSE)} \cup
    {Event(TRUE, id, FALSE, NULL, FALSE) : id \in ids} \cup
    {Event(TRUE, id, TRUE, id, sc) : id \in ids, sc \in BOOLEAN}

RECURSIVE EventLists(_)
\* One response per listed event of the season.
EventLists(evs) ==
    IF evs = <<>> THEN {<<>>}
    ELSE {<<e>> \o rest : e \in EventResponses({Head(evs)}), rest \in EventLists(Tail(evs))}

\* fetch_json of a week's events, with the fetch of each listed event.
WeekResponses(w) ==
    {[ok |-> FALSE, events |-> <<>>]} \cup
    (IF remote = "season" THEN {[ok |-> TRUE, events |-> l] : l \in EventLists(SeasonWeek(w))}
     ELSE {[ok |-> TRUE, events |-> l] :
              l \in SeqsUpTo(EventResponses(AthleteIds \cup {NULL}), MaxEvents)})

\* fetch_json of an event's status: None, or the state it reports.
StatusResponses(e) ==
    {[ok |-> FALSE, state |-> "-"], [ok |-> TRUE, state |-> SeasonState(e)]}

\* fetch_json of a competitor's boxscore: None, or its athlete entries.
BoxscoreResponses(e, team) ==
    {[ok |-> FALSE, athletes |-> <<>>], [ok |-> TRUE, athletes |-> SeasonBoxscore(e, team)]}

\* ---- pure helpers ----
\* teams["TeamID"].dropna().tolist()
dropna(ids) == SelectSeq(ids, LAMBDA t : t # NULL)

TeamList == dropna(teams)

\* load_roster: the rows built from a roster response for team tid.
load_roster(tid, resp) ==
    LET kept == IF resp.ok THEN SelectSeq(resp.athletes, Truthy) ELSE <<>>
    IN  [i \in 1..Len(kept) |-> [PlayerID |-> kept[i], TeamID |-> tid]]

RECURSIVE drop_duplicates_KeepLast(_)
drop_duplicates_KeepLast(rs) ==
    IF rs = <<>> THEN <<>>
    ELSE LET rest == drop_duplicates_KeepLast(Tail(rs))
         IN  IF \E i \in 2..Len(rs) : rs[i].PlayerID = Head(rs).PlayerID
             THEN rest
             ELSE <<Head(rs)>> \o rest

RECURSIVE drop_duplicates(_)
\* df.drop_duplicates(subset=["PlayerID"]): keeps the first row of each PlayerID.
drop_duplicates(rs) ==
    IF rs = <<>> THEN <<>>
    ELSE LET n == Len(rs)
             front == drop_duplicates(SubSeq(rs, 1, n - 1))
         IN  IF \E i \in 1..(n - 1) : rs[i].PlayerID = rs[n].PlayerID
             THEN front
             ELSE Append(front, rs[n])

\* Index of the first coach item whose detail was fetched, 0 if none.
FirstCoach(items) ==
    LET hits == {i \in 1..Len(items) : items[i].ref /\ items[i].ok}
    IN  IF hits = {} THEN 0 ELSE CHOOSE i \in hits : \A j \in hits : i <= j

\* Coach items fetched before the loop over items ended.
CoachTried(items) ==
    IF FirstCoach(items) = 0 THEN 1..Len(items) ELSE 1..FirstCoach(items)

StopsScan_OnlyOnFailure(resp) == ~resp.ok

\* load_games: "if not week_data or not week_data.get('items'): break"
StopsScan(resp) == ~resp.ok \/ resp.events = <<>>

\* Events of a week that yield a GAME row and a stats_meta entry.
Retained(events) == SelectSeq(events, LAMBDA e : e.ok /\ e.ha)

GameRows(events, w) ==
    LET kept == Retained(events)
    IN  [i \in 1..Len(kept) |-> [GameID |-> kept[i].id, scan |-> w]]

MetaEntries(events) ==
    LET kept == Retained(events)
    IN  [i \in 1..Len(kept) |->
            [event_id |-> kept[i].id,
             competition_id |-> IF Truthy(kept[i].comp_id) THEN kept[i].comp_id ELSE kept[i].id,
             competitors |-> <<kept[i].home, kept[i].away>>,
             status_ref |-> kept[i].status_ref]]

\* Kinds of call that failed while a week was handled.
WeekFailures(resp) ==
    IF ~resp.ok THEN {"week"}
    ELSE (IF \E i \in 1..Len(resp.events) : ~resp.events[i].ok THEN {"event"} ELSE {}) \cup
         (IF \E i \in 1..Len(resp.events) :
                resp.events[i].ok /\ resp.events[i].ha /\ ~resp.events[i].sc
          THEN {"score"} ELSE {})

RECURSIVE FirstOccurrences(_)
\* The athlete ids load_game_stats fetches for one competitor: athlete_refs
\* walked with the set seen.
FirstOccurrences(ids) ==
    IF ids = <<>> THEN <<>>
    ELSE LET n == Len(ids)
             front == FirstOccurrences(SubSeq(ids, 1, n - 1))
         IN  IF \E i \in 1..(n - 1) : ids[i] = ids[n] THEN front ELSE Append(front, ids[n])

\* Position main moves to once load_coaches has returned.
EnterGames == IF max_weeks >= 1 THEN "games" ELSE "finish"

\* Position main moves to once load_games has returned meta.
AfterGames(meta) == IF ~skip_game_stats /\ meta # <<>> THEN "stats" ELSE "finish"

args == <<remote, max_weeks, skip_game_stats>>

rosterVars == <<tidx, roster_rows, rosterLog, players>>

gameVars == <<week, weekLog, games, stats_meta>>

statVars == <<mi, ci, game_stats, statusSeen, fetchLog>>

\* ---- initial states ----
NoData ==
    /\ teams = <<>>
    /\ tidx = 1
    /\ roster_rows = <<>>
    /\ rosterLog = <<>>
    /\ players = <<>>
    /\ coaches = <<>>
    /\ week = 1
    /\ weekLog = <<>>
    /\ games = <<>>
    /\ stats_meta = <<>>
    /\ mi = 1
    /\ ci = 0
    /\ game_stats = <<>>
    /\ statusSeen = <<>>
    /\ fetchLog = <<>>
    /\ failedCalls = {}

\* main is called, the remote service serving the season.
EInit ==
    /\ epc = "teams"
    /\ remote = "season"
    /\ max_weeks \in 0..MaxWeeks
    /\ skip_game_stats \in BOOLEAN
    /\ NoData

\* main is called, the remote service answering anything within the bounds.
EInitAny ==
    /\ epc = "teams"
    /\ remote = "any"
    /\ max_weeks = MaxWeeks
    /\ skip_game_stats = FALSE
    /\ NoData

\* main calls load_games, the teams list having been empty.
EInitGames ==
    /\ epc = "games"
    /\ remote = "any"
    /\ max_weeks \in 1..MaxWeeks
    /\ skip_game_stats = FALSE
    /\ NoData

\* ---- actions ----
\* load_teams, and main up to the first roster fetch.
load_teams ==
    /\ epc = "teams"
    /\ \E r \in TeamsResponses :
          IF ~r.ok
          THEN /\ epc' = "aborted"        \* raise RuntimeError("Could not fetch teams")
               /\ failedCalls' = failedCalls \cup {"teams"}
               /\ UNCHANGED teams
          ELSE /\ teams' = r.ids
               /\ epc' = IF dropna(r.ids) = <<>> THEN EnterGames ELSE "players"
               /\ UNCHANGED failedCalls
    /\ UNCHANGED <<args, rosterVars, coaches, gameVars, statVars>>
    /\ UNCHANGED lvars

load_all_players_Raise ==
    /\ epc = "players"
    /\ \E r \in RosterResponses(TeamList[tidx]) :
          LET all == roster_rows \o load_roster(TeamList[tidx], r)
          IN  /\ roster_rows' = all
              /\ rosterLog' = Append(rosterLog, IF r.ok THEN SelectSeq(r.athletes, Truthy) ELSE <<>>)
              /\ failedCalls' = IF r.ok THEN failedCalls ELSE failedCalls \cup {"roster"}
              /\ IF ~r.ok
                 THEN /\ epc' = "aborted"
                      /\ UNCHANGED <<players, tidx>>
                 ELSE IF tidx = Len(TeamList)
                 THEN /\ players' = drop_duplicates(all)
                      /\ epc' = "coaches"
                      /\ tidx' = 1
                 ELSE /\ tidx' = tidx + 1
                      /\ UNCHANGED <<players, epc>>
    /\ UNCHANGED <<args, teams, coaches, gameVars, statVars>>
    /\ UNCHANGED lvars

\* load_all_players: one team of its loop; after the last team, the frame.
load_all_players ==
    /\ epc = "players"
    /\ \E r \in RosterResponses(TeamList[tidx]) :
          LET all == roster_rows \o load_roster(TeamList[tidx], r)
          IN  /\ roster_rows' = all
              /\ rosterLog' = Append(rosterLog, IF r.ok THEN SelectSeq(r.athletes, Truthy) ELSE <<>>)
              /\ failedCalls' = IF r.ok THEN failedCalls ELSE failedCalls \cup {"roster"}
              /\ IF tidx = Len(TeamList)
                 THEN /\ players' = drop_duplicates(all)
                      /\ epc' = "coaches"
                      /\ tidx' = 1
                 ELSE /\ tidx' = tidx + 1
                      /\ UNCHANGED <<players, epc>>
    /\ UNCHANGED <<args, teams, coaches, gameVars, statVars>>
    /\ UNCHANGED lvars

\* load_coaches: one team of its loop.
load_coaches ==
    /\ epc = "coaches"
    /\ \E r \in CoachResponses(TeamList[tidx]) :
          LET first == FirstCoach(r.items)
              tried == CoachTried(r.items)
          IN  /\ coaches' = IF r.ok /\ first # 0
                            THEN Append(coaches, [CoachID |-> r.items[first].id,
                                                  TeamID |-> TeamList[tidx]])
                            ELSE coaches
              /\ failedCalls' = failedCalls \cup
                    (IF ~r.ok THEN {"coaches"} ELSE {}) \cup
                    (IF r.ok /\ \E i \in tried : r.items[i].ref /\ ~r.items[i].ok
                     THEN {"coach"} ELSE {})
    /\ IF tidx = Len(TeamList)
       THEN /\ epc' = EnterGames
            /\ tidx' = 1
       ELSE /\ tidx' = tidx + 1
            /\ UNCHANGED epc
    /\ UNCHANGED <<args, teams, roster_rows, rosterLog, players, gameVars, statVars>>
    /\ UNCHANGED lvars

\* load_games: one week of its loop.
load_games ==
    /\ epc = "games"
    /\ week <= max_weeks
    /\ \E r \in WeekResponses(week) :
          /\ weekLog' = Append(weekLog, [week |-> week, items |-> IF r.ok THEN Len(r.events) ELSE -1])
          /\ failedCalls' = failedCalls \cup WeekFailures(r)
          /\ IF StopsScan(r)
             THEN /\ epc' = AfterGames(stats_meta)       \* break
                  /\ UNCHANGED <<week, games, stats_meta>>
             ELSE /\ games' = games \o GameRows(r.events, week)
                  /\ stats_meta' = stats_meta \o MetaEntries(r.events)
                  /\ IF week = max_weeks
                     THEN /\ epc' = AfterGames(stats_meta')
                          /\ UNCHANGED week
                     ELSE /\ week' = week + 1
                          /\ UNCHANGED epc
    /\ UNCHANGED <<args, teams, rosterVars, coaches, statVars>>
    /\ UNCHANGED lvars

\* The loop of load_game_stats moves to the next entry of meta, or returns.
NextEntry ==
    IF mi = Len(stats_meta)
    THEN /\ epc' = "finish"
         /\ UNCHANGED mi
         /\ ci' = 0
    ELSE /\ mi' = mi + 1
         /\ ci' = 0
         /\ UNCHANGED epc

\* load_game_stats: an entry of meta up to the loop over its competitors.
load_game_stats_entry ==
    /\ epc = "stats"
    /\ ci = 0
    /\ LET entry == stats_meta[mi]
       IN  IF ~Truthy(entry.event_id) \/ ~Truthy(entry.competition_id)
           THEN /\ statusSeen' = Append(statusSeen, "skipped")
                /\ NextEntry
                /\ UNCHANGED failedCalls
           ELSE \E st \in (IF entry.status_ref THEN StatusResponses(entry.event_id)
                           ELSE {[ok |-> FALSE, state |-> "-"]}) :
                   /\ failedCalls' = IF entry.status_ref /\ ~st.ok
                                     THEN failedCalls \cup {"status"} ELSE failedCalls
                   /\ IF st.ok /\ st.state # "post"
                      THEN /\ statusSeen' = Append(statusSeen, st.state)
                           /\ NextEntry          \* skip games that have not finished
                      ELSE /\ statusSeen' = Append(statusSeen, IF st.ok THEN "post" ELSE "unknown")
                           /\ ci' = 1
                           /\ UNCHANGED <<epc, mi>>
    /\ UNCHANGED <<args, teams, rosterVars, coaches, gameVars, game_stats, fetchLog>>
    /\ UNCHANGED lvars

Fetch(kind, who) == [kind |-> kind, mi |-> mi, event |-> stats_meta[mi].event_id, who |-> who]

\* load_game_stats: one competitor of an entry of meta.
load_game_stats_competitor ==
    /\ epc = "stats"
    /\ ci \in {1, 2}
    /\ LET entry == stats_meta[mi]
           team_id == entry.competitors[ci]
       IN  IF ~Truthy(team_id)
           THEN UNCHANGED <<game_stats, fetchLog, failedCalls>>
           ELSE \E b \in BoxscoreResponses(entry.event_id, team_id) :
                   LET refs == IF b.ok THEN SelectSeq(b.athletes, Truthy) ELSE <<>>
                       uniq == FirstOccurrences(refs)
                   IN  \E good \in SUBSET Range(uniq) :
                          LET hit == SelectSeq(uniq, LAMBDA a : a \in good)
                          IN  /\ fetchLog' = fetchLog \o <<Fetch("boxscore", team_id)>> \o
                                    [i \in 1..Len(uniq) |-> Fetch("athlete", uniq[i])]
                              /\ game_stats' = game_stats \o
                                    [i \in 1..Len(hit) |->
                                        [GameID |-> entry.event_id, PlayerID |-> hit[i]]]
                              /\ failedCalls' = failedCalls \cup
                                    (IF ~b.ok THEN {"boxscore"} ELSE {}) \cup
                                    (IF good # Range(uniq) THEN {"athlete"} ELSE {})
    /\ IF ci = 2
       THEN NextEntry
       ELSE /\ ci' = 2
            /\ UNCHANGED <<epc, mi>>
    /\ UNCHANGED <<args, teams, rosterVars, coaches, gameVars, statusSeen>>
    /\ UNCHANGED lvars

\* main_finish pruning the PLAYER frame whether or not GAME_STATS has rows.
main_finish_PruneAlways ==
    /\ epc = "finish"
    /\ players' = LET used_ids == {game_stats[i].PlayerID : i \in 1..Len(game_stats)}
                  IN  SelectSeq(players, LAMBDA p : p.PlayerID \in used_ids)
    /\ epc' = "done"
    /\ UNCHANGED <<args, teams, tidx, roster_rows, rosterLog, coaches, gameVars, statVars, failedCalls>>
    /\ UNCHANGED lvars

\* main, lines 327-348: prune the players, build the frames, return.
main_finish ==
    /\ epc = "finish"
    /\ players' = IF game_stats # <<>>
                  THEN LET used_ids == {game_stats[i].PlayerID : i \in 1..Len(game_stats)}
                       IN  SelectSeq(players, LAMBDA p : p.PlayerID \in used_ids)
                  ELSE players
    /\ epc' = "done"
    /\ UNCHANGED <<args, teams, tidx, roster_rows, rosterLog, coaches, gameVars, statVars, failedCalls>>
    /\ UNCHANGED lvars

\* ---- specifications ----

\* The Loader not running.
LIdle ==
    /\ LInit
    /\ creds
    /\ ~truncate

\* The Extractor not running.
EIdle ==
    /\ EInit
    /\ max_weeks = 0
    /\ ~skip_game_stats

\* The Loader starting, the Extractor not running.
InitLoader == LInit /\ EIdle

\* A run of the Loader.
SpecLoader == InitLoader /\ [][LNext]_vars

Next ==
    \/ load_teams
    \/ load_all_players
    \/ load_coaches
    \/ load_games
    \/ load_game_stats_entry
    \/ load_game_stats_competitor
    \/ main_finish

\* The Extractor starting against the season, the Loader not running.
Init == EInit /\ LIdle

\* A run of the Extractor against the season.
Spec == Init /\ [][Next]_vars

\* The same, main running to its end.
FairSpec == Spec /\ WF_vars(Next)

RosterNext ==
    \/ load_teams
    \/ load_all_players

\* The Extractor starting against any remote service.
InitPlayers == EInitAny /\ LIdle

\* main up to the PLAYER frame, for any teams list and any rosters.
SpecPlayers == InitPlayers /\ [][RosterNext]_vars

GamesNext == load_games

\* The Extractor entering load_games.
InitGames == EInitGames /\ LIdle

\* load_games, for any weeks and events.
SpecGames == InitGames /\ [][GamesNext]_vars

\* ------------------------------------------------------------------------
\* Properties of the Extractor
\* ------------------------------------------------------------------------
OtherCalls ==
    {"roster", "coaches", "coach", "week", "event", "score", "status", "boxscore", "athlete"}

C4_StatsOnlyForCompletedGames ==
    \A i \in 1..Len(statusSeen) :
        statusSeen[i] # "post" =>
            /\ \A k \in 1..Len(fetchLog) : fetchLog[k].mi # i
            /\ \A k \in 1..Len(game_stats) : game_stats[k].GameID # stats_meta[i].event_id

ScanEnded == epc # "games"

\* C5 (as claimed): weeks are queried in the order 1, 2, ...; no week is
\* queried after a week that listed zero items; every GAME row comes from a
\* week before the first such week; if no week listed zero items, exactly
\* max_weeks weeks are queried.
C5_StopsAtFirstEmptyWeek ==
    LET n == Len(weekLog)
    IN  /\ n <= max_weeks
        /\ \A i \in 1..n : weekLog[i].week = i
        /\ \A i \in 1..n : weekLog[i].items = 0 => i = n
        /\ \A k \in 1..Len(games) : \A i \in 1..n : weekLog[i].items = 0 => games[k].scan < i
        /\ (ScanEnded /\ \A i \in 1..n : weekLog[i].items # 0) => n = max_weeks

\* C5 (amended): weeks are queried in the order 1, 2, ...; no week is
\* queried after a week whose fetch failed or that listed zero items; every
\* GAME row comes from a week before the first such week; the scan ends
\* normally, at such a week or after max_weeks weeks.
C5_StopsAtFirstEmptyOrFailedWeek ==
    LET n == Len(weekLog)
    IN  /\ n <= max_weeks
        /\ \A i \in 1..n : weekLog[i].week = i
        /\ \A i \in 1..n : weekLog[i].items <= 0 => i = n
        /\ \A k \in 1..Len(games) :
              /\ games[k].scan \in 1..n
              /\ weekLog[games[k].scan].items > 0
        /\ epc \in {"games", "stats", "finish"}
        /\ ScanEnded => (n = max_weeks \/ (n >= 1 /\ weekLog[n].items <= 0))
        /\ ~ScanEnded => (n < max_weeks /\ week = n + 1)

\* C5 witness: the scan ended at an empty week before max_weeks, with GAME
\* rows from the weeks before it.
C5_Witness ==
    /\ ScanEnded
    /\ Len(weekLog) < max_weeks
    /\ Len(weekLog) >= 2
    /\ weekLog[Len(weekLog)].items = 0
    /\ games # <<>>

\* C8 (as claimed): no PLAYER, COACH or GAME row has a null key.
C8_NoNullKeys ==
    /\ \A k \in 1..Len(players) : players[k].PlayerID # NULL
    /\ \A k \in 1..Len(coaches) : coaches[k].CoachID # NULL
    /\ \A k \in 1..Len(games) : games[k].GameID # NULL

\* C9 (as claimed): no two GAME_STATS rows share (GameID, PlayerID), and an
\* athlete's statistics are fetched at most once per event.
C9_OneRowPerGameAndAthlete ==
    /\ \A i \in 1..Len(game_stats), j \in 1..Len(game_stats) :
          i < j => ~(/\ game_stats[i].GameID = game_stats[j].GameID
                     /\ game_stats[i].PlayerID = game_stats[j].PlayerID)
    /\ \A i \in 1..Len(fetchLog), j \in 1..Len(fetchLog) :
          (i < j /\ fetchLog[i].kind = "athlete" /\ fetchLog[j].kind = "athlete") =>
              ~(fetchLog[i].event = fetchLog[j].event /\ fetchLog[i].who = fetchLog[j].who)

\* Index of the first roster listing athlete p, and p's first place in it.
FirstTeam(p) == CHOOSE i \in 1..Len(rosterLog) :
                    /\ p \in Range(rosterLog[i])
                    /\ \A j \in 1..(i - 1) : p \notin Range(rosterLog[j])

FirstPlace(p) == CHOOSE k \in 1..Len(rosterLog[FirstTeam(p)]) :
                    /\ rosterLog[FirstTeam(p)][k] = p
                    /\ \A l \in 1..(k - 1) : rosterLog[FirstTeam(p)][l] # p

\* C10: once load_all_players has returned, no two PLAYER rows share a
\* PlayerID; every athlete a roster listed has a row; the row's TeamID is
\* that of the first team whose roster listed the athlete; the rows are in
\* the order of first encounter, team by team and roster by roster.
C10_FirstOccurrenceWins ==
    epc = "coaches" =>
        /\ Len(rosterLog) = Len(TeamList)
        /\ \A i \in 1..Len(players), j \in 1..Len(players) :
              i < j => players[i].PlayerID # players[j].PlayerID
        /\ \A i \in 1..Len(rosterLog) : \A p \in Range(rosterLog[i]) :
              \E k \in 1..Len(players) : players[k].PlayerID = p
        /\ \A k \in 1..Len(players) :
              /\ \E i \in 1..Len(rosterLog) : players[k].PlayerID \in Range(rosterLog[i])
              /\ players[k].TeamID = TeamList[FirstTeam(players[k].PlayerID)]
        /\ \A k \in 1..Len(players), l \in 1..Len(players) :
              k < l =>
                 LET p == players[k].PlayerID
                     q == players[l].PlayerID
                 IN  \/ FirstTeam(p) < FirstTeam(q)
                     \/ FirstTeam(p) = FirstTeam(q) /\ FirstPlace(p) < FirstPlace(q)

\* C10 witness: the PLAYER frame was built from rosters of two different
\* teams listing the same athlete, one of them listing an athlete twice.
C10_Witness ==
    /\ epc = "coaches"
    /\ Len(TeamList) >= 2
    /\ TeamList[1] # TeamList[2]
    /\ \E p \in Range(rosterLog[1]) : p \in Range(rosterLog[2])
    /\ \E i \in 1..Len(rosterLog) : \E k \in 1..Len(rosterLog[i]), l \in 1..Len(rosterLog[i]) :
          k < l /\ rosterLog[i][k] = rosterLog[i][l]
    /\ players # <<>>

\* PlayerID is referenced by at least one GAME_STATS row.
Referenced(pid) == \E i \in 1..Len(game_stats) : game_stats[i].PlayerID = pid

\* C11: the step of main that follows the building of the tables takes the
\* deduplicated roster players; if GAME_STATS has rows it leaves in PLAYER
\* exactly the rows of those players whose PlayerID a GAME_STATS row
\* references, each once and in their order; if GAME_STATS has no row it
\* leaves PLAYER as it is; it never alters TEAM, COACH, GAME or GAME_STATS.
C11_PrunesExactlyWhenStatsExist ==
    [][(epc = "finish" /\ epc' = "done") =>
          /\ players = drop_duplicates(roster_rows)
          /\ game_stats # <<>> =>
                /\ \A k \in 1..Len(players') :
                      /\ Referenced(players'[k].PlayerID)
                      /\ \E j \in 1..Len(players) : players[j] = players'[k]
                /\ \A j \in 1..Len(players) :
                      Referenced(players[j].PlayerID) =>
                          \E k \in 1..Len(players') : players'[k] = players[j]
                /\ \A k \in 1..Len(players'), l \in 1..Len(players') :
                      k < l =>
                          \E i \in 1..Len(players), j \in 1..Len(players) :
                              i < j /\ players[i] = players'[k] /\ players[j] = players'[l]
          /\ game_stats = <<>> => players' = players
          /\ UNCHANGED <<teams, coaches, games, game_stats>>]_vars

\* C11 witness: main returned with GAME_STATS rows, having removed a roster
\* player no row references and kept one a row references.
C11_Witness ==
    /\ epc = "done"
    /\ game_stats # <<>>
    /\ players # <<>>
    /\ \E j \in 1..Len(drop_duplicates(roster_rows)) :
          ~Referenced(drop_duplicates(roster_rows)[j].PlayerID)

====
